---------------------------- MODULE Spec2Model ----------------------------
(***************************************************************************)
(* The LDAP codec of src/src/proto.rs: the mapping between typed LDAP      *)
(* messages (LdapMsg, LdapOp, ...) and the BER tagged-node tree            *)
(* (lber::structure::StructureTag).                                        *)
(*                                                                         *)
(* Every conversion is a pure function, so a behaviour is one call, or an  *)
(* encode followed by the decode of what it made: Init draws the input of  *)
(* one entry point from a bounded set and an action applies the function.  *)
(*                                                                         *)
(* Representation.                                                         *)
(*  - a byte is a number in 0..255, Vec<u8> a sequence of bytes;           *)
(*  - a String is the sequence of its UTF-8 bytes (Vec::from(String) and   *)
(*    String::from_utf8 move the same bytes, the latter after validation); *)
(*  - an i64 is its 8 big-endian bytes and an i32 its 4 big-endian bytes,  *)
(*    so that the full width is kept;                                      *)
(*  - Option<T>: None, Some(x); Result<T, ()>: Ok(x), Err; a call that     *)
(*    unwinds is Panic;                                                    *)
(*  - a StructureTag is [class, id, constructed, bytes, inner]: PL::P(b)   *)
(*    is constructed = FALSE with bytes = b, PL::C(v) is constructed =     *)
(*    TRUE with inner = v.                                                 *)
(***************************************************************************)
EXTENDS Integers, Sequences, FiniteSets, TLC

VARIABLES
    call,     \* the entry point this run exercises
    pc,       \* "input", "encoded", "done" or "panicked"
    bv,       \* the bytes handed to ber_integer_to_i64
    value,    \* the domain value handed to encode (LdapMsg or LdapOp)
    tree,     \* the tagged-node tree: handed to decode, or produced by encode
    ret,      \* what the last decode returned
    stdout    \* the lines println! has written (the tag numbers printed)

vars == <<call, pc, bv, value, tree, ret, stdout>>

-----------------------------------------------------------------------------
(* Bounds of the input sets.                                               *)

\* Integer payloads: every byte sequence over IntBytes up to this length.
MaxIntLen == 3
\* Longer integer payloads (a first byte, then one repeated byte) up to this
\* length; 9 is the first length ber_integer_to_i64 refuses.
MaxLongLen == 9
\* Trailing elements after the three result-block fields of a response.
MaxTrailing == 3
\* Elements of a controls or referral list of a value handed to encode.
MaxUnits == 1
\* Children of an envelope beyond the third.
MaxExtra == 2

-----------------------------------------------------------------------------
(* Option, Result and the placeholders of unused variables.                *)

None == [tag |-> "None", v |-> <<>>]
Some(x) == [tag |-> "Some", v |-> <<x>>]
Panic == [tag |-> "Panic", v |-> <<>>]
Ok(x) == [tag |-> "Ok", v |-> <<x>>]
Err == [tag |-> "Err", v |-> <<>>]

IsSome(o) == o.tag = "Some"
IsOk(r) == r.tag = "Ok"
IsErr(r) == r.tag = "Err"
IsPanic(r) == r.tag = "Panic"
\* The value inside Some(x) or Ok(x).
Get(o) == o.v[1]

Nothing == [tag |-> "Nothing", v |-> <<>>]

\* Option::and_then, with an unwinding callee unwinding the caller.
AndThen(o, F(_)) == IF o.tag = "Some" THEN F(Get(o)) ELSE o

-----------------------------------------------------------------------------
(* Bytes, text and fixed-width integers.                                   *)

\* 0..n-1 as the code's `for i in 0..n`.
Range(n) == 0 .. (n - 1)

\* s[i] with the code's 0-based index.
At(s, i) == s[i + 1]

IsCont(b) == b >= 128 /\ b <= 191

\* The length of the UTF-8 scalar that starts at s[i] (1-based), or 0 when
\* s[i..] does not start with a well-formed scalar.
Utf8Step(s, i) ==
    LET n == Len(s)
        b == s[i]
        c(k) == i + k <= n /\ IsCont(s[i + k])
    IN  IF b < 128 THEN 1
        ELSE IF b >= 194 /\ b <= 223 THEN (IF c(1) THEN 2 ELSE 0)
        ELSE IF b = 224
             THEN (IF c(1) /\ s[i + 1] >= 160 /\ c(2) THEN 3 ELSE 0)
        ELSE IF (b >= 225 /\ b <= 236) \/ b = 238 \/ b = 239
             THEN (IF c(1) /\ c(2) THEN 3 ELSE 0)
        ELSE IF b = 237
             THEN (IF c(1) /\ s[i + 1] <= 159 /\ c(2) THEN 3 ELSE 0)
        ELSE IF b = 240
             THEN (IF c(1) /\ s[i + 1] >= 144 /\ c(2) /\ c(3) THEN 4 ELSE 0)
        ELSE IF b >= 241 /\ b <= 243
             THEN (IF c(1) /\ c(2) /\ c(3) THEN 4 ELSE 0)
        ELSE IF b = 244
             THEN (IF c(1) /\ s[i + 1] <= 143 /\ c(2) /\ c(3) THEN 4 ELSE 0)
        ELSE 0

RECURSIVE Utf8ValidFrom(_, _)
Utf8ValidFrom(s, i) ==
    IF i > Len(s) THEN TRUE
    ELSE LET k == Utf8Step(s, i)
         IN  k > 0 /\ Utf8ValidFrom(s, i + k)

\* String::from_utf8(bv).ok()
from_utf8(s) == IF Utf8ValidFrom(s, 1) THEN Some(s) ELSE None

\* The i64 of a small natural number n (n < 2^31), as 8 big-endian bytes.
I64(n) ==
    [k \in 1..8 |->
        CASE k = 8 -> n % 256
          [] k = 7 -> (n \div 256) % 256
          [] k = 6 -> (n \div 65536) % 256
          [] k = 5 -> (n \div 16777216) % 256
          [] OTHER -> 0]

\* `i as i32`: the low 32 bits.
as_i32(i) == [k \in 1..4 |-> i[k + 4]]

\* `msgid as i64`: sign extension of the 32 bits.
as_i64(m) == [k \in 1..8 |-> IF k > 4 THEN m[k - 4] ELSE IF m[1] >= 128 THEN 255 ELSE 0]

\* The loop of ber_integer_to_i64: raw[base + i] = bv[i] on raw = [0; 8],
\* with the bounds checks of the two index expressions.
WriteRaw(base, b) ==
    IF \E i \in Range(Len(b)) : base + i < 0 \/ base + i > 7
    THEN Panic
    ELSE Some([k \in 1..8 |-> IF k - 1 >= base /\ k - 1 - base < Len(b)
                              THEN At(b, k - 1 - base) ELSE 0])

\* The length check dropped: `8 - bv.len()` underflows on a long payload.
ber_integer_to_i64_unchecked(b) ==
    IF 8 - Len(b) < 0 THEN Panic ELSE WriteRaw(8 - Len(b), b)

\* fn ber_integer_to_i64(bv: Vec<u8>) -> Option<i64>
ber_integer_to_i64(b) ==
    IF Len(b) > 8 THEN None
    ELSE LET base == 8 - Len(b) IN WriteRaw(base, b)

-----------------------------------------------------------------------------
(* The tagged-node tree and its accessors.                                 *)

Classes == {"Universal", "Application", "Context", "Private"}

\* lber::universal::Types, the universal tag numbers the codec names.
Types_Integer == 2
Types_OctetString == 4
Types_Enumerated == 10
Types_Sequence == 16

\* StructureTag { class, id, payload: PL::P(bytes) }
Prim(c, i, b) ==
    [class |-> c, id |-> i, constructed |-> FALSE, bytes |-> b, inner |-> <<>>]

\* StructureTag { class, id, payload: PL::C(children) }
Cons(c, i, ch) ==
    [class |-> c, id |-> i, constructed |-> TRUE, bytes |-> <<>>, inner |-> ch]

match_class(t, c) == IF t.class = c THEN Some(t) ELSE None
match_id(t, i) == IF t.id = i THEN Some(t) ELSE None
expect_constructed(t) == IF t.constructed THEN Some(t.inner) ELSE None
expect_primitive(t) == IF t.constructed THEN None ELSE Some(t.bytes)

\* Option::ok_or(())
OkOr(o) ==
    CASE o.tag = "Some" -> Ok(Get(o))
      [] o.tag = "None" -> Err
      [] OTHER -> o

\* Vec::reverse
Reverse(s) == [k \in 1..Len(s) |-> s[Len(s) + 1 - k]]

\* Vec::pop: the last element, if any, and the vector without it.
Pop(s) ==
    IF s = <<>> THEN [item |-> None, rest |-> <<>>]
    ELSE [item |-> Some(s[Len(s)]), rest |-> SubSeq(s, 1, Len(s) - 1)]

-----------------------------------------------------------------------------
(* Decode.                                                                 *)

\* enum LdapResultCode: the discriminants.
LdapResultCodes ==
    (0..8) \cup (10..14) \cup (16..21) \cup (32..35) \cup (48..54)
    \cup (64..69) \cup {71, 80}

\* Every integer decodes to Success.
LdapResultCode_try_from_any(i) == Ok(0)

\* impl TryFrom<i64> for LdapResultCode: the discriminant of the variant.
LdapResultCode_try_from(i) == IF i = I64(0) THEN Ok(0) ELSE Err

\* A universal primitive node of tag number `ty`, read as text.
UniversalText(item) ==
    AndThen(AndThen(AndThen(AndThen(item,
        LAMBDA t : match_class(t, "Universal")),
        LAMBDA t : match_id(t, Types_OctetString)),
        expect_primitive),
        from_utf8)

\* A context-specific primitive node of tag number i, read as text.
ContextText(item, i) ==
    AndThen(AndThen(AndThen(AndThen(item,
        LAMBDA t : match_class(t, "Context")),
        LAMBDA t : match_id(t, i)),
        expect_primitive),
        from_utf8)

\* A universal primitive node of tag number ty, read as an i64.
UniversalInt(item, ty) ==
    AndThen(AndThen(AndThen(AndThen(item,
        LAMBDA t : match_class(t, "Universal")),
        LAMBDA t : match_id(t, ty)),
        expect_primitive),
        ber_integer_to_i64)

\* LdapResult::try_from_tag: Ok(<<result, other>>), other being the
\* elements left over, in the order the code leaves them.
LdapResult_try_from_tag(v) ==
    LET r0 == Reverse(v)
        p1 == Pop(r0)
        i1 == OkOr(UniversalInt(p1.item, Types_Enumerated))
        code == IF IsOk(i1) THEN LdapResultCode_try_from(Get(i1)) ELSE i1
        p2 == Pop(p1.rest)
        matcheddn == OkOr(UniversalText(p2.item))
        p3 == Pop(p2.rest)
        message == OkOr(UniversalText(p3.item))
        other == SelectSeq(p3.rest, LAMBDA t : ~(t.id = 3))
    IN  IF ~IsOk(code) THEN code
        ELSE IF ~IsOk(matcheddn) THEN matcheddn
        ELSE IF ~IsOk(message) THEN message
        ELSE Ok(<<[code |-> Get(code), matcheddn |-> Get(matcheddn),
                   message |-> Get(message), referral |-> <<>>], other>>)

\* The version test of the bind request accepts any version.
BindVersionAny(v) == TRUE

\* `if v != 3 { return Err(()) }`
BindVersionOk(v) == v = I64(3)

\* impl TryFrom<Vec<StructureTag>> for LdapSimpleBind
LdapSimpleBind_try_from(val) ==
    IF Len(val) # 3 THEN Err
    ELSE LET p1 == Pop(val)
             p2 == Pop(p1.rest)
             p3 == Pop(p2.rest)
             choice == p1.item
             dn0 == p2.item
             v0 == p3.item
             v == OkOr(UniversalInt(v0, Types_Integer))
             dn == OkOr(UniversalText(dn0))
             pw == OkOr(ContextText(choice, 0))
         IN  IF ~IsOk(v) THEN v
             ELSE IF ~BindVersionOk(Get(v)) THEN Err
             ELSE IF ~IsOk(dn) THEN dn
             ELSE IF ~IsOk(pw) THEN pw
             ELSE Ok([dn |-> Get(dn), pw |-> Get(pw)])

\* impl TryFrom<Vec<StructureTag>> for LdapBindResponse
LdapBindResponse_try_from(val) ==
    LET r == LdapResult_try_from_tag(val)
    IN  IF ~IsOk(r) THEN r
        ELSE Ok([res |-> Get(r)[1], saslcreds |-> None])

\* impl TryFrom<Vec<StructureTag>> for LdapExtendedRequest
LdapExtendedRequest_try_from(val) ==
    LET r0 == Reverse(val)
        p1 == Pop(r0)
        name == OkOr(ContextText(p1.item, 0))
        p2 == Pop(p1.rest)
        value2 == ContextText(p2.item, 1)
    IN  IF ~IsOk(name) THEN name
        ELSE IF IsPanic(value2) THEN value2
        ELSE Ok([name |-> Get(name), value |-> value2])

\* The closure with the class of the element left unexamined.
ExtendedResponseStepAnyClass(acc, t) ==
    IF t.id = 10
    THEN <<AndThen(expect_primitive(t), from_utf8), acc[2]>>
    ELSE IF t.id = 11
    THEN <<acc[1], AndThen(expect_primitive(t), from_utf8)>>
    ELSE acc

\* The closure of remtag.into_iter().for_each(..) applied to one element:
\* acc is <<name, value>>.
ExtendedResponseStep(acc, t) ==
    IF t.id = 10 /\ t.class = "Context"
    THEN <<AndThen(expect_primitive(t), from_utf8), acc[2]>>
    ELSE IF t.id = 11 /\ t.class = "Context"
    THEN <<acc[1], AndThen(expect_primitive(t), from_utf8)>>
    ELSE acc

RECURSIVE ExtendedResponseScan(_, _)
ExtendedResponseScan(acc, rem) ==
    IF rem = <<>> THEN acc
    ELSE ExtendedResponseScan(ExtendedResponseStep(acc, Head(rem)), Tail(rem))

\* impl TryFrom<Vec<StructureTag>> for LdapExtendedResponse
LdapExtendedResponse_try_from(val) ==
    LET r == LdapResult_try_from_tag(val)
    IN  IF ~IsOk(r) THEN r
        ELSE LET nv == ExtendedResponseScan(<<None, None>>, Get(r)[2])
             IN  Ok([res |-> Get(r)[1], name |-> nv[1], value |-> nv[2]])

\* The variants of LdapOp.
OpValue(kind, body) == [op |-> kind, body |-> body]

\* Result::map(|v| LdapOp::Kind(v))
MapOp(r, kind) == IF IsOk(r) THEN Ok(OpValue(kind, Get(r))) ELSE r

\* The line println!("unknown op -> {:?}", id) writes: the tag number.
\* Standard output is taken to be writable.
LdapOp_prints(t) ==
    IF t.class # "Application" THEN <<>>
    ELSE IF t.id \in {0, 1, 23, 24} /\ t.constructed THEN <<>>
    ELSE IF t.id = 2 THEN <<>>
    ELSE <<t.id>>

\* impl TryFrom<StructureTag> for LdapOp
LdapOp_try_from(t) ==
    IF t.class # "Application" THEN Err
    ELSE IF t.id = 0 /\ t.constructed
         THEN MapOp(LdapSimpleBind_try_from(t.inner), "SimpleBind")
    ELSE IF t.id = 1 /\ t.constructed
         THEN MapOp(LdapBindResponse_try_from(t.inner), "BindResponse")
    ELSE IF t.id = 2 THEN Ok(OpValue("UnbindRequest", <<>>))
    ELSE IF t.id = 23 /\ t.constructed
         THEN MapOp(LdapExtendedRequest_try_from(t.inner), "ExtendedRequest")
    ELSE IF t.id = 24 /\ t.constructed
         THEN MapOp(LdapExtendedResponse_try_from(t.inner), "ExtendedResponse")
    ELSE Err

\* The envelope takes two children or more, the fourth and later ignored.
EnvelopeFieldsLoose(seq) ==
    IF Len(seq) >= 3
    THEN Some(<<Some(seq[1]), Some(seq[2]), Some(seq[3])>>)
    ELSE IF Len(seq) = 2 THEN Some(<<Some(seq[1]), Some(seq[2]), None>>)
    ELSE None

\* `match seq.len()` of LdapMsg::try_from: <<msgid_tag, op_tag, ctrl_tag>>.
EnvelopeFields(seq) ==
    IF Len(seq) = 2
    THEN LET o == Pop(seq)
             m == Pop(o.rest)
         IN  Some(<<m.item, o.item, None>>)
    ELSE IF Len(seq) = 3
    THEN LET c == Pop(seq)
             o == Pop(c.rest)
             m == Pop(o.rest)
         IN  Some(<<m.item, o.item, c.item>>)
    ELSE None

\* The controls slot yielding one control for a context 0 node.
EnvelopeControlsKept(ctrl_tag) ==
    LET c == AndThen(AndThen(ctrl_tag,
                 LAMBDA t : match_class(t, "Context")),
                 LAMBDA t : match_id(t, 0))
    IN  IF IsSome(c) THEN <<"()">> ELSE <<>>

\* The controls slot of LdapMsg::try_from: the list it yields.
EnvelopeControls(ctrl_tag) ==
    LET c == AndThen(AndThen(ctrl_tag,
                 LAMBDA t : match_class(t, "Context")),
                 LAMBDA t : match_id(t, 0))
    IN  IF IsSome(c) THEN <<>> ELSE <<>>

\* impl TryFrom<StructureTag> for LdapMsg: [res |-> the result, out |-> the
\* lines printed on the way].
LdapMsg_try_from(t) ==
    LET seq == OkOr(AndThen(match_id(t, Types_Sequence), expect_constructed))
    IN  IF ~IsOk(seq) THEN [res |-> seq, out |-> <<>>]
        ELSE LET f == EnvelopeFields(Get(seq))
             IN  IF ~IsSome(f) THEN [res |-> Err, out |-> <<>>]
                 ELSE LET i == UniversalInt(Get(f)[1], Types_Integer)
                          msgid == OkOr(IF IsSome(i) THEN Some(as_i32(Get(i))) ELSE i)
                      IN  IF ~IsOk(msgid) THEN [res |-> msgid, out |-> <<>>]
                          ELSE LET op_tag == OkOr(Get(f)[2])
                               IN  IF ~IsOk(op_tag) THEN [res |-> op_tag, out |-> <<>>]
                                   ELSE LET op == LdapOp_try_from(Get(op_tag))
                                            out == LdapOp_prints(Get(op_tag))
                                        IN  IF ~IsOk(op) THEN [res |-> op, out |-> out]
                                            ELSE [res |-> Ok([msgid |-> Get(msgid),
                                                              op |-> Get(op),
                                                              ctrl |-> EnvelopeControls(Get(f)[3])]),
                                                  out |-> out]

-----------------------------------------------------------------------------
(* Encode.  A conversion returns Val(x), or unwinds (Panic).               *)

Val(x) == [tag |-> "Value", v |-> <<x>>]
IsVal(r) == r.tag = "Value"

RECURSIVE MinimalBytes(_)
MinimalBytes(s) ==
    IF Len(s) > 1 /\ (   (s[1] = 0 /\ s[2] < 128)
                      \/ (s[1] = 255 /\ s[2] >= 128))
    THEN MinimalBytes(Tail(s))
    ELSE s

\* The payload of an INTEGER or ENUMERATED node.  The bytes are written by
\* the tag library (lber), outside this repository; they are taken as the
\* specification states them: the minimal big-endian two's-complement
\* representation of the i64.
EncodeInteger(i) == MinimalBytes(i)

\* Tag::Integer(Integer { inner, ..Default::default() }).into_structure()
IntegerTag(i) == Prim("Universal", Types_Integer, EncodeInteger(i))

\* Tag::Enumerated(Enumerated { inner, ..Default::default() }).into_structure()
EnumeratedTag(i) == Prim("Universal", Types_Enumerated, EncodeInteger(i))

\* Tag::OctetString(OctetString { id, class, inner }).into_structure()
OctetStringTag(c, i, b) == Prim(c, i, b)

\* Option::map(|v| Tag::OctetString(..)) on Option<String>
MapOctetString(o, c, i) == IF IsSome(o) THEN Some(OctetStringTag(c, i, Get(o))) ELSE None

\* Iterator::filter_map(|s| s) on a sequence of Option<Tag>
FilterMap(s) ==
    LET kept == SelectSeq(s, IsSome)
    IN  [k \in 1..Len(kept) |-> Get(kept[k])]

\* impl From<LdapSimpleBind> for Vec<Tag>
LdapSimpleBind_into(b) ==
    Val(<<IntegerTag(I64(3)),
          OctetStringTag("Universal", Types_OctetString, b.dn),
          OctetStringTag("Context", 0, b.pw)>>)

\* LdapResult::into_tag_iter, run to its end: the Option<Tag> items.
LdapResult_into_tag_iter(res) ==
    IF Len(res.referral) > 0 THEN Panic
    ELSE Val(<<Some(EnumeratedTag(I64(res.code))),
               Some(OctetStringTag("Universal", Types_OctetString, res.matcheddn)),
               Some(OctetStringTag("Universal", Types_OctetString, res.message)),
               None>>)

\* impl From<LdapBindResponse> for Vec<Tag>
LdapBindResponse_into(b) ==
    LET r == LdapResult_into_tag_iter(b.res)
    IN  IF ~IsVal(r) THEN r
        ELSE Val(FilterMap(Get(r) \o
                 <<MapOctetString(b.saslcreds, "Universal", Types_OctetString)>>))

\* impl From<LdapExtendedRequest> for Vec<Tag>
LdapExtendedRequest_into(e) ==
    Val(<<OctetStringTag("Context", 0, e.name)>>
        \o FilterMap(<<MapOctetString(e.value, "Context", 1)>>))

\* impl From<LdapExtendedResponse> for Vec<Tag>
LdapExtendedResponse_into(e) ==
    LET r == LdapResult_into_tag_iter(e.res)
    IN  IF ~IsVal(r) THEN r
        ELSE Val(FilterMap(Get(r) \o <<MapOctetString(e.name, "Context", 10),
                                       MapOctetString(e.value, "Context", 11)>>))

\* Tag::Sequence(Sequence { class: Application, id, inner }) around the
\* elements a conversion yields.
ApplicationSequence(i, r) ==
    IF ~IsVal(r) THEN r ELSE Val(Cons("Application", i, Get(r)))

\* impl From<LdapOp> for Tag, as the node into_structure makes of it.
LdapOp_into(o) ==
    CASE o.op = "SimpleBind" -> ApplicationSequence(0, LdapSimpleBind_into(o.body))
      [] o.op = "BindResponse" -> ApplicationSequence(1, LdapBindResponse_into(o.body))
      [] o.op = "UnbindRequest" -> Val(Prim("Application", 2, <<>>))
      [] o.op = "ExtendedRequest" -> ApplicationSequence(23, LdapExtendedRequest_into(o.body))
      [] o.op = "ExtendedResponse" -> ApplicationSequence(24, LdapExtendedResponse_into(o.body))

\* impl From<LdapMsg> for StructureTag
LdapMsg_into(m) ==
    LET id == Some(IntegerTag(as_i64(m.msgid)))
        op == LdapOp_into(m.op)
    IN  IF ~IsVal(op) THEN op
        ELSE IF Len(m.ctrl) > 0 THEN Panic
        ELSE Val(Cons("Universal", Types_Sequence,
                      FilterMap(<<id, Some(Get(op)), None>>)))

-----------------------------------------------------------------------------
(* Input sets.                                                             *)

RECURSIVE Repeat(_, _)
Repeat(x, n) == IF n <= 0 THEN <<>> ELSE <<x>> \o Repeat(x, n - 1)

SeqsUpTo(S, n) == UNION {[1..k -> S] : k \in 0..n}

IntBytes == {0, 1, 3, 127, 128, 255}

IntPayloads ==
    SeqsUpTo(IntBytes, MaxIntLen)
    \cup {<<a>> \o Repeat(f, n - 1) : a \in IntBytes, f \in IntBytes, n \in 4..MaxLongLen}

\* An integer payload one byte too long for an i64 at the default bound.
LongPayload(last) == Repeat(0, MaxLongLen - 1) \o <<last>>

\* Strings: "", "A", "e-acute".
Strings == {<<>>, <<65>>, <<195, 169>>}
FewStrings == {<<>>, <<65>>}

\* OCTET STRING payloads: the strings, and two that are not UTF-8.
TextPayloads == Strings \cup {<<255>>, <<195>>}
BadText == TextPayloads \ Strings

\* The nodes that differ from the primitive node (c, i) in class, in tag
\* number or in kind.
WrongShape(c, i, b, ids) ==
    {Prim(c2, i, b) : c2 \in Classes \ {c}}
    \cup {Prim(c, i2, b) : i2 \in ids}
    \cup {Cons(c, i, <<>>)}

TextNodes(c, i, ids) ==
    {Prim(c, i, t) : t \in TextPayloads} \cup WrongShape(c, i, <<65>>, ids)

\* --- children of a bind request
VersionNodes ==
    {Prim("Universal", Types_Integer, b) :
        b \in {<<3>>, <<2>>, <<0, 3>>, <<3, 0>>, <<>>, <<255>>, LongPayload(3)}}
    \cup WrongShape("Universal", Types_Integer, <<3>>, {Types_Enumerated, Types_OctetString})
DnNodes == TextNodes("Universal", Types_OctetString, {Types_Integer, 12})
PwNodes == TextNodes("Context", 0, {1, 3})

GoodVersion == Prim("Universal", Types_Integer, <<3>>)
GoodDn == Prim("Universal", Types_OctetString, <<65>>)
GoodPw == Prim("Context", 0, <<65>>)

BindChildren ==
    {<<>>}
    \cup {<<v>> : v \in VersionNodes}
    \cup {<<v, d>> : v \in VersionNodes, d \in DnNodes}
    \cup {<<v, d, w>> : v \in VersionNodes, d \in DnNodes, w \in PwNodes}
    \cup {<<GoodVersion, GoodDn, w, x>> : w \in PwNodes, x \in PwNodes}

\* --- children of a response
CodePayloads ==
    {<<>>, <<0>>, <<0, 0>>, <<1>>, <<9>>, <<49>>, <<80>>, <<81>>, <<128>>,
     <<255>>, <<1, 0>>, <<255, 255>>, LongPayload(0)}
CodeNodes ==
    {Prim("Universal", Types_Enumerated, b) : b \in CodePayloads}
    \cup WrongShape("Universal", Types_Enumerated, <<0>>, {Types_Integer, Types_OctetString})

GoodHeads ==
    {<<Prim("Universal", Types_Enumerated, c), Prim("Universal", Types_OctetString, <<>>),
       Prim("Universal", Types_OctetString, <<65>>)>> : c \in {<<0>>, <<1>>}}

TrailingNodes ==
    {Prim("Context", 10, t) : t \in TextPayloads}
    \cup {Prim("Context", 11, t) : t \in {<<>>, <<65>>, <<255>>}}
    \cup {Cons("Context", 10, <<>>), Cons("Context", 11, <<>>),
          Prim("Context", 3, <<65>>), Cons("Context", 3, <<>>),
          Prim("Universal", 3, <<65>>), Prim("Universal", 10, <<65>>),
          Prim("Application", 10, <<65>>), Prim("Private", 11, <<65>>),
          Prim("Universal", Types_OctetString, <<65>>), Prim("Context", 12, <<65>>)}

ResponseChildren ==
    {<<>>}
    \cup {<<k>> : k \in CodeNodes}
    \cup {<<k, m>> : k \in CodeNodes, m \in DnNodes}
    \cup {<<k, m, d>> : k \in CodeNodes, m \in DnNodes, d \in DnNodes}
    \cup {h \o t : h \in GoodHeads, t \in SeqsUpTo(TrailingNodes, MaxTrailing)}

\* --- children of an extended request
ValueNodes == TextNodes("Context", 1, {0, 2})

ExtendedRequestChildren ==
    {<<>>}
    \cup {<<n>> : n \in PwNodes}
    \cup {<<n, v>> : n \in PwNodes, v \in ValueNodes}
    \cup {<<n, v, x>> : n \in PwNodes, v \in ValueNodes, x \in {GoodPw, Prim("Context", 1, <<65>>)}}

\* --- operation nodes
OpIds == {0, 1, 2, 3, 23, 24, 25, 99}

GoodBind == <<GoodVersion, GoodDn, GoodPw>>
GoodResponse == <<Prim("Universal", Types_Enumerated, <<0>>), GoodDn, GoodDn>>
GoodRequest == <<GoodPw, Prim("Context", 1, <<65>>)>>

AnyChildren == {<<>>, <<GoodVersion>>, GoodBind, GoodResponse, GoodRequest}

OpNodes ==
    {Cons("Application", 0, ch) : ch \in BindChildren}
    \cup {Cons("Application", i, ch) : i \in {1, 24}, ch \in ResponseChildren}
    \cup {Cons("Application", 23, ch) : ch \in ExtendedRequestChildren}
    \cup {Prim(c, i, b) : c \in Classes, i \in OpIds, b \in {<<>>, <<65>>}}
    \cup {Cons(c, i, ch) : c \in Classes, i \in OpIds, ch \in AnyChildren}

\* --- envelopes
MsgIdNodes ==
    {Prim("Universal", Types_Integer, b) :
        b \in {<<1>>, <<>>, <<255>>, <<128, 0, 0, 0>>, <<1, 0, 0, 0, 0>>,
               Repeat(255, 8), LongPayload(1)}}
    \cup WrongShape("Universal", Types_Integer, <<1>>, {Types_Enumerated})

GoodMsgId == Prim("Universal", Types_Integer, <<1>>)

MsgOpNodes ==
    {Cons("Application", 0, GoodBind), Cons("Application", 1, GoodResponse),
     Prim("Application", 2, <<>>), Cons("Application", 23, GoodRequest),
     Cons("Application", 24, GoodResponse \o <<Prim("Context", 10, <<65>>)>>),
     Cons("Application", 24, GoodResponse \o <<Prim("Context", 3, <<65>>)>>),
     Prim("Application", 99, <<>>), Cons("Application", 99, <<>>),
     Cons("Application", 0, <<>>), Prim("Application", 0, <<>>),
     Cons("Application", 1, <<Prim("Universal", Types_Enumerated, <<1>>), GoodDn, GoodDn>>),
     Prim("Universal", Types_Integer, <<1>>), Cons("Context", 0, GoodBind)}

CtrlNodes ==
    UNION {{Prim(c, i, <<>>), Prim(c, i, <<255>>), Cons(c, i, <<>>), Cons(c, i, <<GoodDn>>)} :
           c \in Classes, i \in {0, 1, Types_Sequence}}

ContextZeroNodes == {n \in CtrlNodes : n.class = "Context" /\ n.id = 0}

EnvelopeChildren ==
    {<<>>}
    \cup {<<m>> : m \in MsgIdNodes}
    \cup {<<m, o>> : m \in MsgIdNodes, o \in MsgOpNodes}
    \cup {<<m, o, c>> : m \in MsgIdNodes, o \in MsgOpNodes, c \in CtrlNodes}
    \cup {<<GoodMsgId, o, c>> \o xs :
            o \in MsgOpNodes, c \in ContextZeroNodes,
            xs \in SeqsUpTo({GoodMsgId, Cons("Context", 0, <<>>)}, MaxExtra) \ {<<>>}}

GoodEnvelope == <<GoodMsgId, Cons("Application", 0, GoodBind)>>

MsgTrees ==
    {Cons("Universal", Types_Sequence, ch) : ch \in EnvelopeChildren}
    \cup {Cons(c, i, ch) : c \in Classes, i \in {Types_Sequence, 17, Types_Integer},
                           ch \in {<<>>, GoodEnvelope, GoodEnvelope \o <<Cons("Context", 0, <<>>)>>}}
    \cup {Prim(c, i, b) : c \in Classes, i \in {Types_Sequence, 17, Types_Integer},
                          b \in {<<>>, <<48>>}}

\* --- domain values
OptionOf(S) == {None} \cup {Some(x) : x \in S}

\* Vec<()> up to n elements.
Units(n) == {Repeat("()", k) : k \in 0..n}

LdapResults(codes, strs) ==
    [code : codes, matcheddn : strs, message : strs, referral : Units(MaxUnits)]

OpValues(codes, strs) ==
    {OpValue("SimpleBind", b) : b \in [dn : strs, pw : strs]}
    \cup {OpValue("BindResponse", b) :
            b \in [res : LdapResults(codes, strs), saslcreds : OptionOf(strs)]}
    \cup {OpValue("UnbindRequest", <<>>)}
    \cup {OpValue("ExtendedRequest", b) : b \in [name : strs, value : OptionOf(strs)]}
    \cup {OpValue("ExtendedResponse", b) :
            b \in [res : LdapResults(codes, FewStrings), name : OptionOf(strs),
                   value : OptionOf(strs)]}

\* i32 message ids: 1, -1, 128.
MsgIds == {<<0, 0, 0, 1>>, <<255, 255, 255, 255>>, <<0, 0, 0, 128>>}

MsgValues ==
    [msgid : MsgIds, op : OpValues({0, 49}, FewStrings), ctrl : Units(MaxUnits)]

-----------------------------------------------------------------------------
(* The calls.                                                              *)

Init ==
    /\ pc = "input"
    /\ stdout = <<>>
    /\ ret = Nothing
    /\ \/ /\ call = "ber_integer_to_i64"
          /\ bv \in IntPayloads
          /\ value = Nothing
          /\ tree = Nothing
       \/ /\ call \in {"LdapOp::try_from"}
          /\ bv = <<>>
          /\ value = Nothing
          /\ tree \in OpNodes
       \/ /\ call = "LdapMsg::try_from"
          /\ bv = <<>>
          /\ value = Nothing
          /\ tree \in MsgTrees
       \/ /\ call = "LdapOp::into"
          /\ bv = <<>>
          /\ value \in OpValues(LdapResultCodes, Strings)
          /\ tree = Nothing
       \/ /\ call = "LdapMsg::into"
          /\ bv = <<>>
          /\ value \in MsgValues
          /\ tree = Nothing

After(r) == IF IsPanic(r) THEN "panicked" ELSE "done"

\* ber_integer_to_i64 applied to bv.
DecodeInteger ==
    /\ call = "ber_integer_to_i64"
    /\ pc = "input"
    /\ ret' = ber_integer_to_i64(bv)
    /\ pc' = After(ret')
    /\ UNCHANGED <<call, bv, value, tree, stdout>>

\* LdapOp::try_from applied to a node a peer sent, or to the node LdapOp's
\* encoding made.
DecodeOp ==
    /\ \/ call = "LdapOp::try_from" /\ pc = "input"
       \/ call = "LdapOp::into" /\ pc = "encoded"
    /\ ret' = LdapOp_try_from(tree)
    /\ stdout' = stdout \o LdapOp_prints(tree)
    /\ pc' = After(ret')
    /\ UNCHANGED <<call, bv, value, tree>>

\* LdapMsg::try_from applied to a tree a peer sent, or to the tree LdapMsg's
\* encoding made.
DecodeMsg ==
    /\ \/ call = "LdapMsg::try_from" /\ pc = "input"
       \/ call = "LdapMsg::into" /\ pc = "encoded"
    /\ LET r == LdapMsg_try_from(tree)
       IN  /\ ret' = r.res
           /\ stdout' = stdout \o r.out
    /\ pc' = After(ret')
    /\ UNCHANGED <<call, bv, value, tree>>

\* Tag::from(LdapOp).into_structure() applied to value.
EncodeOp ==
    /\ call = "LdapOp::into"
    /\ pc = "input"
    /\ LET r == LdapOp_into(value)
       IN  IF IsVal(r)
           THEN tree' = Get(r) /\ pc' = "encoded"
           ELSE tree' = tree /\ pc' = "panicked"
    /\ UNCHANGED <<call, bv, value, ret, stdout>>

\* StructureTag::from(LdapMsg) applied to value.
EncodeMsg ==
    /\ call = "LdapMsg::into"
    /\ pc = "input"
    /\ LET r == LdapMsg_into(value)
       IN  IF IsVal(r)
           THEN tree' = Get(r) /\ pc' = "encoded"
           ELSE tree' = tree /\ pc' = "panicked"
    /\ UNCHANGED <<call, bv, value, ret, stdout>>

Next ==
    \/ DecodeInteger
    \/ DecodeOp
    \/ DecodeMsg
    \/ EncodeOp
    \/ EncodeMsg

Spec == Init /\ [][Next]_vars

-----------------------------------------------------------------------------
(* The properties.                                                         *)

\* The reference reading of an integer payload of 1 to 8 bytes: big-endian
\* two's complement, sign-extended to 64 bits.
SignExtend(b) ==
    [k \in 1..8 |-> IF k > 8 - Len(b) THEN b[k - (8 - Len(b))]
                    ELSE IF b[1] >= 128 THEN 255 ELSE 0]

\* Two payloads carry the same integer exactly when their shortest two's
\* complement forms are equal.
RECURSIVE Shortest(_)
Shortest(b) ==
    IF Len(b) > 1 /\ ((b[1] = 0 /\ b[2] < 128) \/ (b[1] = 255 /\ b[2] >= 128))
    THEN Shortest(Tail(b))
    ELSE b

IsNode(t, c, i) == t.class = c /\ t.id = i
IsPrimNode(t, c, i) == IsNode(t, c, i) /\ ~t.constructed
IsOpNode(t, i) == IsNode(t, "Application", i) /\ t.constructed
IsEnvelope(t) == IsNode(t, "Universal", Types_Sequence) /\ t.constructed

OpDecoded == call = "LdapOp::try_from" /\ pc = "done"
MsgDecoded == call = "LdapMsg::try_from" /\ pc = "done"

\* C1 (as claimed): for every operation value whose referral list is empty,
\* decoding the node its encoding makes succeeds and yields the value.
C1_RoundTrip ==
    (call = "LdapOp::into" /\ pc \in {"done", "panicked"}
        /\ (value.op \in {"BindResponse", "ExtendedResponse"}
                => value.body.res.referral = <<>>))
    => (pc = "done" /\ IsOk(ret) /\ Get(ret) = value)

\* C2: whatever tree is handed to LdapMsg::try_from, and whatever node to
\* LdapOp::try_from under it, the call ends by returning Ok(message or
\* operation) or Err(()): it never unwinds.
C2_DecodeNeverPanics ==
    (call \in {"LdapMsg::try_from", "LdapOp::try_from"})
    => /\ pc \in {"input", "done"}
       /\ pc = "done" => (IsOk(ret) \/ IsErr(ret))

\* An envelope whose messageID payload is too long for an i64 was refused.
C2_Witness ==
    /\ MsgDecoded /\ IsEnvelope(tree) /\ Len(tree.inner) = 2
    /\ IsPrimNode(tree.inner[1], "Universal", Types_Integer)
    /\ Len(tree.inner[1].bytes) > 8
    /\ IsErr(ret)

\* C3 (as claimed): encoding a message with a non-empty controls list, or a
\* response with a non-empty referral list, returns (an error value) and
\* does not unwind.
C3_EncodeNeverPanics ==
    (call \in {"LdapMsg::into", "LdapOp::into"}) => pc # "panicked"

\* C4 (as claimed): a payload of 1 to 8 bytes decodes to its sign-extended
\* two's-complement value, a longer one fails.
C4_SignExtension ==
    (call = "ber_integer_to_i64" /\ pc = "done")
    => /\ Len(bv) \in 1..8 => ret = Some(SignExtend(bv))
       /\ Len(bv) > 8 => ret = None

\* A messageID node LdapMsg::try_from takes: 1 to 8 bytes of INTEGER.
ValidMsgId(t) ==
    IsPrimNode(t, "Universal", Types_Integer) /\ Len(t.bytes) \in 1..8

\* C5: a universal SEQUENCE of a valid messageID and a valid operation
\* decodes to a message with no controls; so does one with a third child of
\* class Context and tag 0, whatever it holds; a SEQUENCE of 0, 1, 4 or more
\* children fails.
C5_EnvelopeByChildCount ==
    (MsgDecoded /\ IsEnvelope(tree))
    => LET ch == tree.inner
           valid == /\ ValidMsgId(ch[1])
                    /\ IsOk(LdapOp_try_from(ch[2]))
           message == /\ IsOk(ret)
                      /\ Get(ret).ctrl = <<>>
                      /\ Get(ret).op = Get(LdapOp_try_from(ch[2]))
       IN  /\ Len(ch) \notin {2, 3} => IsErr(ret)
           /\ (Len(ch) = 2 /\ valid) => message
           /\ (Len(ch) = 3 /\ valid /\ IsNode(ch[3], "Context", 0)) => message

\* A three-child envelope whose context-0 third child holds a node decoded.
C5_Witness ==
    /\ MsgDecoded /\ IsEnvelope(tree) /\ Len(tree.inner) = 3
    /\ tree.inner[3] = Cons("Context", 0, <<GoodDn>>)
    /\ IsOk(ret) /\ Get(ret).ctrl = <<>>

\* The (class, tag number, kind) of the operations the dispatcher takes.
Recognized(t) ==
    /\ t.class = "Application"
    /\ \/ t.id \in {0, 1, 23, 24} /\ t.constructed
       \/ t.id = 2

\* C6 (as claimed): a node is taken only when it is Recognized, and every
\* other node fails with an error that carries its tag number.
C6_UnknownOperationCarried ==
    (OpDecoded /\ ~Recognized(tree))
    => (IsErr(ret) /\ ret.v = <<"UnknownOperation", tree.id>>)

\* C7: the result block's code is Success only when the resultCode integer
\* is 0, and an integer outside the enumeration makes the decode fail; no
\* integer yields a result block with another code than its own.
C7_NoCoercionToSuccess ==
    (OpDecoded /\ (IsOpNode(tree, 1) \/ IsOpNode(tree, 24))
        /\ Len(tree.inner) >= 1
        /\ IsPrimNode(tree.inner[1], "Universal", Types_Enumerated)
        /\ Len(tree.inner[1].bytes) >= 1)
    => LET n == Shortest(tree.inner[1].bytes)
       IN  /\ IsOk(ret) => /\ n = <<0>>
                           /\ Get(ret).body.res.code = 0
                           /\ Shortest(I64(Get(ret).body.res.code)) = n
           /\ n \notin {Shortest(I64(c)) : c \in LdapResultCodes} => IsErr(ret)
           /\ n # <<0>> => IsErr(ret)

\* A response whose resultCode is 81, no code of the enumeration, failed.
C7_Witness ==
    /\ OpDecoded /\ IsOpNode(tree, 1) /\ Len(tree.inner) = 3
    /\ tree.inner[1] = Prim("Universal", Types_Enumerated, <<81>>)
    /\ IsPrimNode(tree.inner[2], "Universal", Types_OctetString)
    /\ IsPrimNode(tree.inner[3], "Universal", Types_OctetString)
    /\ IsErr(ret)

\* C8 (as claimed): a three-child envelope whose third child is not a
\* context-specific tag 0 node fails.
C8_ControlsSlotChecked ==
    (MsgDecoded /\ IsEnvelope(tree) /\ Len(tree.inner) = 3
        /\ ~IsNode(tree.inner[3], "Context", 0))
    => IsErr(ret)

\* C9: a bind request decodes only from three elements, a universal
\* primitive INTEGER 3, a universal primitive OCTET STRING and a context 0
\* primitive OCTET STRING, to the DN and password they hold; any other
\* count, any other version and any other credential choice fail.
C9_SimpleBindShape ==
    (OpDecoded /\ IsOpNode(tree, 0))
    => LET ch == tree.inner
           version == /\ IsPrimNode(ch[1], "Universal", Types_Integer)
                      /\ Len(ch[1].bytes) \in 1..8
                      /\ Shortest(ch[1].bytes) = <<3>>
           dn == IsPrimNode(ch[2], "Universal", Types_OctetString)
           pw == IsPrimNode(ch[3], "Context", 0)
       IN  /\ Len(ch) # 3 => IsErr(ret)
           /\ (Len(ch) = 3 /\ ~version) => IsErr(ret)
           /\ (Len(ch) = 3 /\ ~IsNode(ch[3], "Context", 0)) => IsErr(ret)
           /\ IsOk(ret) => /\ Len(ch) = 3 /\ version /\ dn /\ pw
                           /\ Get(ret) = OpValue("SimpleBind",
                                  [dn |-> ch[2].bytes, pw |-> ch[3].bytes])
           /\ (Len(ch) = 3 /\ version /\ dn /\ pw
                 /\ IsSome(from_utf8(ch[2].bytes)) /\ IsSome(from_utf8(ch[3].bytes)))
              => IsOk(ret)

\* A bind request whose credential is the SASL choice (context 3) failed.
C9_Witness ==
    /\ OpDecoded /\ IsOpNode(tree, 0)
    /\ tree.inner = <<GoodVersion, GoodDn, Prim("Context", 3, <<65>>)>>
    /\ IsErr(ret)

\* A text field: a primitive node of the expected class and tag number.
InvalidText(t, c, i) == IsPrimNode(t, c, i) /\ ~IsSome(from_utf8(t.bytes))

\* The node has a text field, present with its class and tag number, whose
\* payload is not UTF-8.
HasInvalidText(t) ==
    LET ch == t.inner
    IN  \/ /\ IsOpNode(t, 0) /\ Len(ch) = 3
           /\ \/ InvalidText(ch[2], "Universal", Types_OctetString)
              \/ InvalidText(ch[3], "Context", 0)
        \/ /\ IsOpNode(t, 1) \/ IsOpNode(t, 24)
           /\ \E k \in {2, 3} :
                 k <= Len(ch) /\ InvalidText(ch[k], "Universal", Types_OctetString)
        \/ /\ IsOpNode(t, 23)
           /\ \/ Len(ch) >= 1 /\ InvalidText(ch[1], "Context", 0)
              \/ Len(ch) >= 2 /\ InvalidText(ch[2], "Context", 1)
        \/ /\ IsOpNode(t, 24)
           /\ \E k \in 4..Len(ch) :
                 InvalidText(ch[k], "Context", 10) \/ InvalidText(ch[k], "Context", 11)

\* C10 (as claimed): an operation with a text field that is not UTF-8 fails
\* to decode.
C10_InvalidTextFails ==
    (OpDecoded /\ HasInvalidText(tree)) => IsErr(ret)

\* The trailing elements of a response: those after the result block.
Trailing(t) == SubSeq(t.inner, 4, Len(t.inner))

IsNameNode(t) == IsNode(t, "Context", 10)
IsValueNode(t) == IsNode(t, "Context", 11)

\* The response node without the trailing elements that are neither a
\* context 10 nor a context 11 node.
WithoutOthers(t) ==
    Cons(t.class, t.id,
         SubSeq(t.inner, 1, 3)
         \o SelectSeq(Trailing(t), LAMBDA x : IsNameNode(x) \/ IsValueNode(x)))

\* The field read from the trailing elements: absent when no node of the
\* kind is there, the text of the node when one primitive UTF-8 node is.
FieldFrom(field, nodes) ==
    /\ nodes = <<>> => field = None
    /\ (Len(nodes) = 1 /\ ~nodes[1].constructed /\ IsSome(from_utf8(nodes[1].bytes)))
       => field = Some(nodes[1].bytes)

\* C11: in an extended response, responseName is read from the context 10
\* node and responseValue from the context 11 node among the trailing
\* elements, each present or absent on its own; trailing nodes of any other
\* class and tag number, wherever they stand, neither make the decode fail
\* nor change the result block, the name or the value decoded.
C11_TrailingElements ==
    (OpDecoded /\ IsOpNode(tree, 24) /\ Len(tree.inner) >= 3)
    => /\ ret = LdapOp_try_from(WithoutOthers(tree))
       /\ IsOk(LdapResult_try_from_tag(SubSeq(tree.inner, 1, 3))) => IsOk(ret)
       /\ IsOk(ret)
          => /\ Get(ret).body.res = Get(LdapResult_try_from_tag(SubSeq(tree.inner, 1, 3)))[1]
             /\ FieldFrom(Get(ret).body.name, SelectSeq(Trailing(tree), IsNameNode))
             /\ FieldFrom(Get(ret).body.value, SelectSeq(Trailing(tree), IsValueNode))

\* A response with a name between two nodes of other tags decoded, the name
\* read and the value absent.
C11_Witness ==
    /\ OpDecoded /\ IsOpNode(tree, 24) /\ Len(tree.inner) = 6
    /\ tree.inner[4] = Prim("Universal", 10, <<65>>)
    /\ tree.inner[5] = Prim("Context", 10, <<65>>)
    /\ tree.inner[6] = Prim("Context", 3, <<65>>)
    /\ IsOk(ret)
    /\ Get(ret).body.name = Some(<<65>>)
    /\ Get(ret).body.value = None

\* C12: a message LdapMsg::try_from returns has an empty controls list and,
\* when its operation is a response, an empty referral list, so encoding it
\* returns a tree and reaches neither unimplemented!().
C12_DecodedIsEncodable ==
    (MsgDecoded /\ IsOk(ret))
    => /\ Get(ret).ctrl = <<>>
       /\ Get(ret).op.op \in {"BindResponse", "ExtendedResponse"}
          => Get(ret).op.body.res.referral = <<>>
       /\ IsVal(LdapMsg_into(Get(ret)))

\* A message decoded from an envelope that has a controls node and whose
\* extended response has a referral node (tag number 3).
C12_Witness ==
    /\ MsgDecoded /\ IsEnvelope(tree) /\ Len(tree.inner) = 3
    /\ IsNode(tree.inner[3], "Context", 0)
    /\ IsOpNode(tree.inner[2], 24)
    /\ \E k \in 1..Len(tree.inner[2].inner) : tree.inner[2].inner[k].id = 3
    /\ IsOk(ret)
    /\ IsVal(LdapMsg_into(Get(ret)))

=============================================================================
